---------------------------- MODULE Spec2Model ----------------------------
(***************************************************************************)
(* The four pricing functions of the option-pricing dashboard:             *)
(*   black_scholes              pages/1_Black-Scholes Pricer.py            *)
(*   lsm_american_option_price  pages/2_Monte Carlo Pricer.py              *)
(*   binomial_tree              pages/3_Binomial Tree Pricer.py            *)
(*   black_scholes_price, implied_volatility                               *)
(*                              pages/4_Implied Volatility Estimator.py    *)
(*                                                                         *)
(* Streamlit runs every session's script on a thread of one Python         *)
(* process, so the calls of different sessions share that process's        *)
(* module state, of which the only mutable part the functions touch is     *)
(* numpy's global random generator.                                        *)
(*                                                                         *)
(* Python floats are modelled as decimal floating-point numbers with a     *)
(* four-digit mantissa, [m |-> mantissa, e |-> exponent] standing for      *)
(* m * 10^e, every operation rounding its exact result to four digits as   *)
(* IEEE arithmetic rounds to 53 bits.  The library functions math.exp,     *)
(* math.log, math.sqrt and norm.cdf are evaluated in that arithmetic.      *)
(***************************************************************************)
EXTENDS Integers, Sequences, FiniteSets

----------------------------------------------------------------------------
(* Floating-point arithmetic                                               *)

Abs(x) == IF x < 0 THEN -x ELSE x

Sgn(x) == IF x < 0 THEN -1 ELSE IF x = 0 THEN 0 ELSE 1

Pow10(k) ==
    <<1, 10, 100, 1000, 10000, 100000, 1000000, 10000000, 100000000,
      1000000000>>[k + 1]

\* The number of decimal digits of a >= 1.
NumDigits(a) ==
    IF a < 10 THEN 1 ELSE IF a < 100 THEN 2 ELSE IF a < 1000 THEN 3
    ELSE IF a < 10000 THEN 4 ELSE IF a < 100000 THEN 5
    ELSE IF a < 1000000 THEN 6 ELSE IF a < 10000000 THEN 7
    ELSE IF a < 100000000 THEN 8 ELSE IF a < 1000000000 THEN 9 ELSE 10

\* n * 10^e, n of k + 4 digits with k > 0, its mantissa rounded to q.
NormRounded(n, e, k, q) ==
    IF q = 10000 THEN [m |-> Sgn(n) * 1000, e |-> e + k + 1]
    ELSE [m |-> Sgn(n) * q, e |-> e + k]

\* n * 10^e, n of k + 4 digits: padded to four digits, or rounded to four,
\* half away from zero.
NormDigits(n, e, k) ==
    IF k <= 0 THEN [m |-> n * Pow10(-k), e |-> e + k]
    ELSE NormRounded(n, e, k, (Abs(n) + 5 * Pow10(k - 1)) \div Pow10(k))

\* The float nearest to n * 10^e.
Norm(n, e) ==
    IF n = 0 THEN [m |-> 0, e |-> 0] ELSE NormDigits(n, e, NumDigits(Abs(n)) - 4)

Fp(n, e) == Norm(n, e)

FpInt(n) == Norm(n, 0)

FpZero == [m |-> 0, e |-> 0]

FpOne == [m |-> 1000, e |-> -3]

FpNeg(a) == [m |-> -a.m, e |-> a.e]

\* a + b with a.e >= b.e: b is absorbed when it lies below a's last digit.
FpAddOrdered(a, b) ==
    IF a.e - b.e > 5 THEN a ELSE Norm(a.m * Pow10(a.e - b.e) + b.m, b.e)

FpAdd(a, b) ==
    IF a.m = 0 THEN b
    ELSE IF b.m = 0 THEN a
    ELSE FpAddOrdered(IF a.e >= b.e THEN a ELSE b, IF a.e >= b.e THEN b ELSE a)

FpSub(a, b) == FpAdd(a, FpNeg(b))

FpMul(a, b) == Norm(a.m * b.m, a.e + b.e)

\* a / b for b # 0 (the callers raise ZeroDivisionError first).
FpDiv(a, b) ==
    Norm(Sgn(a.m) * Sgn(b.m) * ((Abs(a.m) * 100000) \div Abs(b.m)), a.e - b.e - 5)

FpLt(a, b) == FpSub(a, b).m < 0

FpLe(a, b) == FpSub(a, b).m <= 0

FpMax(a, b) == IF FpLt(a, b) THEN b ELSE a

RECURSIVE FpPow(_, _)
\* a ** k for an integer k >= 0.
FpPow(a, k) == IF k = 0 THEN FpOne ELSE FpMul(FpPow(a, k - 1), a)

\* The integer part of a, toward zero, for |a| < 10^9.
FpTrunc(a) ==
    IF a.m = 0 THEN 0
    ELSE IF a.e >= 0 THEN a.m * Pow10(a.e)
    ELSE IF a.e < -4 THEN 0
    ELSE Sgn(a.m) * (Abs(a.m) \div Pow10(-a.e))

----------------------------------------------------------------------------
(* math.sqrt, math.exp, math.log and scipy.stats.norm.cdf                   *)

RECURSIVE ISqrtIter(_, _, _)
ISqrtIter(n, lo, hi) ==
    IF lo >= hi THEN lo
    ELSE LET mid == (lo + hi + 1) \div 2
         IN  IF mid * mid <= n THEN ISqrtIter(n, mid, hi)
             ELSE ISqrtIter(n, lo, mid - 1)

\* The integer square root of n < 10^9.
ISqrt(n) == ISqrtIter(n, 0, 31622)

\* math.sqrt(a) for a >= 0 (the callers raise ValueError for a < 0).
MathSqrt(a) ==
    IF a.m = 0 THEN FpZero
    ELSE LET odd == (a.e % 2) # 0
             m2 == IF odd THEN a.m * 10 ELSE a.m
             e2 == IF odd THEN a.e - 1 ELSE a.e
         IN  Norm(ISqrt(m2 * 10000), (e2 - 4) \div 2)

\* a in units of 10^-6, for |a| < 2000.
FpMicro(a) ==
    IF a.m = 0 THEN 0
    ELSE IF a.e >= -6 THEN a.m * Pow10(a.e + 6)
    ELSE IF a.e < -11 THEN 0
    ELSE Sgn(a.m) * (Abs(a.m) \div Pow10(-6 - a.e))

\* n / d rounded to the nearest integer, d > 0.
RoundDiv(n, d) == Sgn(n) * ((Abs(n) + d \div 2) \div d)

RECURSIVE ExpSeries(_, _)
\* 1 + f/n * (1 + f/(n+1) * ( ... )), the Taylor series of e^f from term n,
\* f and the sum in units of 10^-4.
ExpSeries(f, n) ==
    IF n > 10 THEN 10000
    ELSE 10000 + RoundDiv(f * ExpSeries(f, n + 1), n * 10000)

\* math.exp(a): a = k * ln 10 + f with |f| <= ln(10)/2, e^a = e^f * 10^k.
MathExp(a) ==
    LET k == RoundDiv(FpMicro(a), 2302585)
        f == RoundDiv(FpMicro(a) - k * 2302585, 100)
    IN  Norm(ExpSeries(f, 1), k - 4)

\* ln y for y in [0.75, 1.5), in units of 10^-6:
\* 2 * (s + s^3/3 + s^5/5 + s^7/7 + s^9/9) with s = (y-1)/(y+1), |s| <= 0.2.
\* s and s2 = s^2 in units of 10^-5.
LogHorner(s, s2) ==
    2 * RoundDiv(s * (100000 + RoundDiv(s2 * (33333 + RoundDiv(s2 * (20000
            + RoundDiv(s2 * (14286 + RoundDiv(s2 * 11111, 100000)), 100000)),
            100000)), 100000)), 10000)

LogOdd(s) == LogHorner(s, RoundDiv(s * s, 100000))

LogSeries(y) ==
    LogOdd(RoundDiv(FpMicro(FpDiv(FpSub(y, FpOne), FpAdd(y, FpOne))), 10))

\* math.log(a) for a > 0 (the callers raise ValueError for a <= 0):
\* a = y * 2^j * 10^(a.e + 3) with y in [0.75, 1.5).
MathLog(a) ==
    LET j == IF a.m >= 6000 THEN 3 ELSE IF a.m >= 3000 THEN 2
             ELSE IF a.m >= 1500 THEN 1 ELSE 0
    IN  Norm((a.e + 3) * 2302585 + j * 693147
                 + LogSeries(FpDiv([m |-> a.m, e |-> -3],
                                   FpInt(<<1, 2, 4, 8>>[j + 1]))),
             -6)

\* The upper tail 1 - Phi(x) of the standard normal at x = 0.0, 0.1, ..., 5.1.
UpperTailTable ==
    << <<5000, -4>>, <<4602, -4>>, <<4207, -4>>, <<3821, -4>>, <<3446, -4>>,
       <<3085, -4>>, <<2743, -4>>, <<2420, -4>>, <<2119, -4>>, <<1841, -4>>,
       <<1587, -4>>, <<1357, -4>>, <<1151, -4>>, <<9680, -5>>, <<8076, -5>>,
       <<6681, -5>>, <<5480, -5>>, <<4457, -5>>, <<3593, -5>>, <<2872, -5>>,
       <<2275, -5>>, <<1786, -5>>, <<1390, -5>>, <<1072, -5>>, <<8198, -6>>,
       <<6210, -6>>, <<4661, -6>>, <<3467, -6>>, <<2555, -6>>, <<1866, -6>>,
       <<1350, -6>>, <<9676, -7>>, <<6871, -7>>, <<4834, -7>>, <<3369, -7>>,
       <<2326, -7>>, <<1591, -7>>, <<1078, -7>>, <<7235, -8>>, <<4810, -8>>,
       <<3167, -8>>, <<2066, -8>>, <<1335, -8>>, <<8540, -9>>, <<5413, -9>>,
       <<3398, -9>>, <<2112, -9>>, <<1301, -9>>, <<7933, -10>>, <<4792, -10>>,
       <<2867, -10>>, <<1698, -10>> >>

TailEntry(t) == [m |-> t[1], e |-> t[2]]

UpperTailAt(i) == TailEntry(UpperTailTable[i + 1])

\* The table interpolated between its entries i and i + 1 at x10 / 10.
TailBetween(i, x10) ==
    FpAdd(UpperTailAt(i),
          FpMul(FpSub(x10, FpInt(i)), FpSub(UpperTailAt(i + 1), UpperTailAt(i))))

\* phi(x)/x * (1 - 1/x^2 + 3/x^4), x2 = x^2.
TailSeries(x, x2) ==
    FpMul(FpDiv(FpMul([m |-> 3989, e |-> -4],
                      MathExp(FpNeg(FpDiv(x2, [m |-> 2000, e |-> -3])))), x),
          FpAdd(FpSub(FpOne, FpDiv(FpOne, x2)),
                FpDiv([m |-> 3000, e |-> -3], FpMul(x2, x2))))

\* 1 - Phi(x) for x >= 0: the table, interpolated, up to 5; beyond it the
\* asymptotic series; zero once phi(x) underflows (for a double, beyond
\* x = 38).
UpperTail(x) ==
    IF FpLt([m |-> 3800, e |-> -2], x) THEN FpZero
    ELSE IF FpLt(x, [m |-> 5000, e |-> -3])
    THEN TailBetween(FpTrunc(FpMul(x, [m |-> 1000, e |-> -2])),
                     FpMul(x, [m |-> 1000, e |-> -2]))
    ELSE TailSeries(x, FpMul(x, x))

\* Phi(x) from the upper tail q at |x|.
CdfFromTail(x, q) == IF x.m < 0 THEN q ELSE FpSub(FpOne, q)

\* norm.cdf(x)
NormCdf(x) == CdfFromTail(x, UpperTail([m |-> Abs(x.m), e |-> x.e]))

----------------------------------------------------------------------------
(* What a Python call ends in: a returned float, a returned None, a        *)
(* returned nan, or a raised exception of class exc with message msg.      *)

Return(v) == [tag |-> "value", v |-> v, exc |-> "", msg |-> ""]

ReturnNone == [tag |-> "none", v |-> FpZero, exc |-> "", msg |-> ""]

ReturnNan == [tag |-> "nan", v |-> FpZero, exc |-> "", msg |-> ""]

Raise(exc, msg) == [tag |-> "raise", v |-> FpZero, exc |-> exc, msg |-> msg]

Pending == [tag |-> "pending", v |-> FpZero, exc |-> "", msg |-> ""]

----------------------------------------------------------------------------
(* pages/1_Black-Scholes Pricer.py and                                     *)
(* pages/4_Implied Volatility Estimator.py                                 *)

\* d1 once S / K is x and sigma * math.sqrt(T) is den.
D1Quotient(x, T, r, sigma, den) ==
    IF den.m = 0 THEN Raise("ZeroDivisionError", "float division by zero")
    ELSE Return(FpDiv(FpAdd(MathLog(x),
                            FpMul(FpAdd(r, FpMul([m |-> 5000, e |-> -4],
                                                 FpMul(sigma, sigma))), T)),
                      den))

\* d1 once S / K is x.
D1Log(x, T, r, sigma) ==
    IF x.m <= 0 THEN Raise("ValueError", "math domain error")
    ELSE IF T.m < 0 THEN Raise("ValueError", "math domain error")
    ELSE D1Quotient(x, T, r, sigma, FpMul(sigma, MathSqrt(T)))

\* d1 = (math.log(S / K) + (r + 0.5 * sigma**2) * T) / (sigma * math.sqrt(T)),
\* the same line in both files, or the exception its evaluation raises, in
\* Python's order of evaluation: S / K, math.log, math.sqrt, the division.
D1(S, K, T, r, sigma) ==
    IF K.m = 0 THEN Raise("ZeroDivisionError", "float division by zero")
    ELSE D1Log(FpDiv(S, K), T, r, sigma)

\* d2 = d1 - sigma * math.sqrt(T)
D2(d1, T, sigma) == FpSub(d1, FpMul(sigma, MathSqrt(T)))

\* S * norm.cdf(d1) - K * math.exp(-r * T) * norm.cdf(d2)
CallFormula(S, K, T, r, d1, d2) ==
    FpSub(FpMul(S, NormCdf(d1)),
          FpMul(FpMul(K, MathExp(FpMul(FpNeg(r), T))), NormCdf(d2)))

\* K * math.exp(-r * T) * norm.cdf(-d2) - S * norm.cdf(-d1)
PutFormula(S, K, T, r, d1, d2) ==
    FpSub(FpMul(FpMul(K, MathExp(FpMul(FpNeg(r), T))), NormCdf(FpNeg(d2))),
          FpMul(S, NormCdf(FpNeg(d1))))

InvalidOptionKind == Raise("ValueError", "option_type must be 'call' or 'put'")

\* Lines 12-15 of the implied-volatility page: if call / else.
PriceCallElsePut(S, K, T, r, d1, d2, option_type) ==
    IF option_type = "call" THEN Return(CallFormula(S, K, T, r, d1, d2))
    ELSE Return(PutFormula(S, K, T, r, d1, d2))

\* Lines 13-18 of the Black-Scholes page: if call / elif put / else raise.
PriceCallPutElseRaise(S, K, T, r, d1, d2, option_type) ==
    IF option_type = "call" THEN Return(CallFormula(S, K, T, r, d1, d2))
    ELSE IF option_type = "put" THEN Return(PutFormula(S, K, T, r, d1, d2))
    ELSE InvalidOptionKind

\* black_scholes_price once d1 is computed or has raised.
PriceAfterD1(d1, S, K, T, r, sigma, option_type) ==
    IF d1.tag = "raise" THEN d1
    ELSE PriceCallElsePut(S, K, T, r, d1.v, D2(d1.v, T, sigma), option_type)

\* black_scholes_price of the implied-volatility page.
black_scholes_price(S, K, T, r, sigma, option_type) ==
    PriceAfterD1(D1(S, K, T, r, sigma), S, K, T, r, sigma, option_type)

\* black_scholes once d1 is computed or has raised.
BlackScholesAfterD1(d1, S, K, T, r, sigma, option_type) ==
    IF d1.tag = "raise" THEN d1
    ELSE PriceCallPutElseRaise(S, K, T, r, d1.v, D2(d1.v, T, sigma), option_type)

\* A pricer that takes every kind other than call for a put.
black_scholes_put_otherwise(S, K, T, r, sigma, option_type) ==
    PriceAfterD1(D1(S, K, T, r, sigma), S, K, T, r, sigma, option_type)

\* black_scholes of the Black-Scholes page.
black_scholes(S, K, T, r, sigma, option_type) ==
    BlackScholesAfterD1(D1(S, K, T, r, sigma), S, K, T, r, sigma, option_type)

\* The objective's value once the price p is computed or has raised.
ObjectiveOf(p, market_price) ==
    IF p.tag = "raise" THEN p ELSE Return(FpSub(p.v, market_price))

\* objective(sigma) of implied_volatility, c the enclosing call's arguments.
objective(c, sigma) ==
    ObjectiveOf(black_scholes_price(c.S, c.K, c.T, c.r, sigma, c.option_type),
                c.market_price)

\* The ends of the bracket implied_volatility searches: 1e-6 and 5.0.
SigmaLo == [m |-> 1000, e |-> -9]

SigmaHi == [m |-> 5000, e |-> -3]

(* The iteration of scipy's brentq for f(a) and f(b) of opposite signs: the  *)
(* bracket [a, b] shrinks around a sign change of the objective until its    *)
(* ends are neighbouring floats (or an iterate is an exact zero), and the    *)
(* end with the smaller |f| is the root returned.                            *)
RECURSIVE BracketSearch(_, _, _, _, _)

\* The bracket narrowed to the side of mid on which f changes sign.
BracketNarrow(c, a, b, fa, fb, mid, fmid) ==
    IF fmid.m = 0 THEN mid
    ELSE IF Sgn(fmid.m) = Sgn(fa.m) THEN BracketSearch(c, mid, b, fmid, fb)
    ELSE BracketSearch(c, a, mid, fa, fmid)

\* One iteration, mid the middle of the bracket.
BracketStep(c, a, b, fa, fb, mid) ==
    IF mid = a \/ mid = b
    THEN (IF FpLe([m |-> Abs(fa.m), e |-> fa.e], [m |-> Abs(fb.m), e |-> fb.e])
          THEN a ELSE b)
    ELSE BracketNarrow(c, a, b, fa, fb, mid, objective(c, mid).v)

BracketSearch(c, a, b, fa, fb) ==
    BracketStep(c, a, b, fa, fb, FpDiv(FpAdd(a, b), [m |-> 2000, e |-> -3]))

\* A search that does not look at the signs at the ends of the bracket.
brentq_unbracketed(c, a, b) ==
    LET fa == objective(c, a)
        fb == objective(c, b)
    IN  IF fa.tag = "raise" THEN fa
        ELSE IF fb.tag = "raise" THEN fb
        ELSE Return(BracketSearch(c, a, b, fa.v, fb.v))

\* brentq once f(a) and f(b) are computed or have raised: an exception of
\* the objective passes through; an end of the bracket that is a zero is
\* returned as the root; ends of one sign raise ValueError.
BrentqEnds(c, a, b, fa, fb) ==
    IF fa.tag = "raise" THEN fa
    ELSE IF fb.tag = "raise" THEN fb
    ELSE IF fa.v.m = 0 THEN Return(a)
    ELSE IF fb.v.m = 0 THEN Return(b)
    ELSE IF Sgn(fa.v.m) = Sgn(fb.v.m)
         THEN Raise("ValueError", "f(a) and f(b) must have different signs")
    ELSE Return(BracketSearch(c, a, b, fa.v, fb.v))

\* scipy.optimize.brentq(objective, a, b)
brentq(c, a, b) == BrentqEnds(c, a, b, objective(c, a), objective(c, b))

\* try: return x  except ValueError: return None
ExceptValueError(x) ==
    IF x.tag = "raise" /\ x.exc = "ValueError" THEN ReturnNone ELSE x

\* implied_volatility: try: return brentq(objective, 1e-6, 5.0) ...
implied_volatility(c) == ExceptValueError(brentq(c, SigmaLo, SigmaHi))

----------------------------------------------------------------------------
(* numpy's global generator, np.random: one state for the whole process.   *)
(* The Mersenne Twister is modelled by a linear congruential generator,    *)
(* and a standard normal variate by one of three values.                   *)

Seeds == 0..63

RngNext(s) == (5 * s + 3) % 64

RECURSIVE RngAdvance(_, _)
\* The generator's state after n draws.
RngAdvance(s, n) == IF n <= 0 THEN s ELSE RngAdvance(RngNext(s), n - 1)

\* The variate a draw leaving the generator in state s yields.
NormalOf(s) == <<FpInt(-1), FpZero, FpOne>>[(s % 3) + 1]

\* np.random.standard_normal(n) from state s: the n variates.
standard_normal(s, n) == [i \in 1..n |-> NormalOf(RngAdvance(s, i))]

----------------------------------------------------------------------------
(* pages/2_Monte Carlo Pricer.py: lsm_american_option_price                *)
(* q is the call's arguments: S (S0), K, T, r, sigma, option_type,         *)
(* simulations, n (steps).  Arrays are sequences indexed from 1:           *)
(* paths[i][t + 1] is paths[i - 1, t] of the code.                          *)

\* Lines 11-15: the exception raised before the simulation starts, if any.
LsmEnterOutcome(q) ==
    IF q.n = 0 THEN Raise("ZeroDivisionError", "float division by zero")
    ELSE IF q.simulations < 0
         THEN Raise("ValueError", "negative dimensions are not allowed")
    ELSE IF q.n + 1 < 0
         THEN Raise("ValueError", "negative dimensions are not allowed")
    ELSE IF q.n + 1 = 0
         THEN Raise("IndexError", "index 0 is out of bounds for axis 1 with size 0")
    ELSE Pending

\* What a backward iteration did, kept for the properties: its t, its branch
\* (call / noitm / regress), the cashflow vector before it, and the indices
\* line 41 assigned and line 28 or 42 multiplied by the discount.
NoStep ==
    [kind |-> "none", t |-> 0, before |-> <<>>, exercised |-> {},
     discounted |-> {}, regressions |-> 0]

LsmIdle ==
    [dt |-> FpZero, discount |-> FpZero, paths |-> <<>>, payoff |-> <<>>,
     t |-> 0, last |-> NoStep]

\* Lines 12-15, given dt.
LsmFrame(q, dt) ==
    [dt |-> dt,
     discount |-> MathExp(FpMul(FpNeg(q.r), dt)),
     paths |-> [i \in 1..q.simulations |->
                   [t \in 1..(q.n + 1) |-> IF t = 1 THEN q.S ELSE FpZero]],
     payoff |-> [i \in 1..q.simulations |-> FpZero],
     t |-> 1, last |-> NoStep]

\* Lines 11-15: dt, discount, payoff = zeros, paths = zeros with column 0 = S0.
LsmEnterFrame(q) == LsmFrame(q, FpDiv(q.T, FpInt(q.n)))

\* np.exp((r - 0.5 * sigma**2) * dt + sigma * np.sqrt(dt) * z), line 19.
Growth(q, dt, z) ==
    MathExp(FpAdd(FpMul(FpSub(q.r, FpMul([m |-> 5000, e |-> -4],
                                         FpMul(q.sigma, q.sigma))), dt),
                  FpMul(FpMul(q.sigma, MathSqrt(dt)), z)))

\* Lines 18-19 for one t: paths[:, t] = paths[:, t - 1] * np.exp(...), z the
\* variates drawn.
LsmSimulateStep(f, q, z) ==
    [f EXCEPT !.paths = [i \in 1..q.simulations |->
                            [f.paths[i] EXCEPT ![f.t + 1] =
                                FpMul(f.paths[i][f.t], Growth(q, f.dt, z[i]))]],
              !.t = f.t + 1]

\* A backward loop that starts one step later, at t = steps.
LsmLoopStartAtSteps(steps) == steps

\* The first t of the backward loop, range(steps - 1, 0, -1).
LsmLoopStart(steps) == steps - 1

\* Lines 21-24: the terminal payoff of every trajectory.
LsmTerminal(f, q) ==
    [f EXCEPT !.payoff = [i \in 1..q.simulations |->
                            IF q.option_type = "call"
                            THEN FpMax(FpSub(f.paths[i][q.n + 1], q.K), FpZero)
                            ELSE FpMax(FpSub(q.K, f.paths[i][q.n + 1]), FpZero)],
              !.t = LsmLoopStart(q.n)]

\* itm = np.where(paths[:, t] < K)[0], line 31.
InTheMoney(paths, t, K) == {i \in 1..Len(paths) : FpLt(paths[i][t + 1], K)}

RECURSIVE DotTo(_, _, _)
DotTo(u, v, n) ==
    IF n = 0 THEN FpZero ELSE FpAdd(DotTo(u, v, n - 1), FpMul(u[n], v[n]))

\* The inner product of two vectors.
Dot(u, v) == DotTo(u, v, Len(u))

\* u - (uv / vv) * v for uv = u.v and vv = v.v, and u itself when v is null.
ResidualBy(u, v, uv, vv) ==
    IF vv.m = 0 THEN u
    ELSE [i \in 1..Len(u) |-> FpSub(u[i], FpMul(FpDiv(uv, vv), v[i]))]

\* What is left of u once its component along v is taken out.
Residual(u, v) == ResidualBy(u, v, Dot(u, v), Dot(v, v))

\* A direction v got from the column c is kept unless it is null to
\* rounding, as lstsq drops the singular values below rcond.
Kept(v, c) == FpLt(FpMul([m |-> 1000, e |-> -9], Dot(c, c)), Dot(v, v))

\* (yv / vv) * v when the direction is kept, for yv = Y.v and vv = v.v.
ComponentBy(v, yv, vv, kept) ==
    IF kept THEN [i \in 1..Len(v) |-> FpMul(FpDiv(yv, vv), v[i])]
    ELSE [i \in 1..Len(v) |-> FpZero]

\* The component of Y along the direction v got from the column c.
Component(Y, v, c) == ComponentBy(v, Dot(Y, v), Dot(v, v), Kept(v, c))

\* The element-wise square of a vector.
Square(v) == [i \in 1..Len(v) |-> FpMul(v[i], v[i])]

\* The sum of three vectors.
Sum3(a, b, c) == [i \in 1..Len(a) |-> FpAdd(FpAdd(a[i], b[i]), c[i])]

\* The third direction: w3 less its component along v2 when v2 is kept.
ThirdDirection(w3, v2, X) == IF Kept(v2, X) THEN Residual(w3, v2) ELSE w3

\* The projection of Y on the span of one, v2 and the third direction.
Projection(one, X, Y, v2, w3) ==
    Sum3(Component(Y, one, one), Component(Y, v2, X),
         Component(Y, ThirdDirection(w3, v2, X), Square(v2)))

\* The fitted values given v2 = X - mean(X).
FitCentred(one, X, Y, v2) ==
    Projection(one, X, Y, v2, Residual(Square(v2), one))

\* The fitted values of the least-squares fit of Y on 1, X and X**2: the
\* orthogonal projection of Y on the span of the three columns, computed by
\* Gram-Schmidt on 1, X - mean(X) and its square (they span what 1, X and
\* X**2 span).
Fitted(one, X, Y) == FitCentred(one, X, Y, Residual(X, one))

\* Lines 34-38: X = paths[itm, t], Y = payoff[itm] * discount,
\* A = [1, X, X**2], coeffs = lstsq(A, Y), and continuation_value =
\* coeffs[0] + coeffs[1]*X + coeffs[2]*X**2.  The vectors keep the length
\* simulations, with zeros off itm.
ContinuationValue(paths, payoff, discount, t, itm) ==
    Fitted([i \in 1..Len(paths) |-> IF i \in itm THEN FpOne ELSE FpZero],
           [i \in 1..Len(paths) |-> IF i \in itm THEN paths[i][t + 1] ELSE FpZero],
           [i \in 1..Len(paths) |->
               IF i \in itm THEN FpMul(payoff[i], discount) ELSE FpZero])

\* exercise_value = np.maximum(K - paths[itm, t], 0), line 39.
ExerciseValue(paths, t, K) ==
    [i \in 1..Len(paths) |-> FpMax(FpSub(K, paths[i][t + 1]), FpZero)]

\* exercise = exercise_value > continuation_value, line 40: the trajectories
\* of itm it flags.
Exercise(itm, ev, cv) == {i \in itm : FpLt(cv[i], ev[i])}

\* The indices line 41 assigns: itm[exercise].
ExercisedIdx(itm, exercise) == itm \cap exercise

\* A mask that leaves out every trajectory in the money, exercised or not.
DiscountedIdxOutOfMoney(simulations, itm, exercise) ==
    {i \in 1..simulations : i \notin itm}

\* The indices line 42 multiplies:
\* ~np.isin(np.arange(simulations), itm[exercise]).
DiscountedIdx(simulations, itm, exercise) ==
    {i \in 1..simulations : i \notin (itm \cap exercise)}

\* payoff[ei] = ev[ei], line 41.
AssignAt(payoff, ei, ev) ==
    [i \in 1..Len(payoff) |-> IF i \in ei THEN ev[i] ELSE payoff[i]]

\* payoff[di] *= discount, lines 28 and 42.
MultiplyAt(payoff, di, discount) ==
    [i \in 1..Len(payoff) |-> IF i \in di THEN FpMul(payoff[i], discount)
                               ELSE payoff[i]]

\* The frame after an iteration that took the given branch, assigned the
\* indices ei the values of ev and then multiplied the indices di.
LsmStepResult(f, kind, ev, ei, di, regressions) ==
    [f EXCEPT !.payoff = MultiplyAt(AssignAt(f.payoff, ei, ev), di, f.discount),
              !.t = f.t - 1,
              !.last = [kind |-> kind, t |-> f.t, before |-> f.payoff,
                        exercised |-> ei, discounted |-> di,
                        regressions |-> f.last.regressions + regressions]]

\* Lines 40-42, given the exercise and continuation values.
LsmExerciseStep(f, q, itm, ev, cv) ==
    LsmStepResult(f, "regress", ev,
                  ExercisedIdx(itm, Exercise(itm, ev, cv)),
                  DiscountedIdx(q.simulations, itm, Exercise(itm, ev, cv)), 1)

\* Lines 31-42, given itm.
LsmPutStep(f, q, itm) ==
    IF Cardinality(itm) = 0
    THEN LsmStepResult(f, "noitm", f.payoff, {}, {}, 0)
    ELSE LsmExerciseStep(f, q, itm, ExerciseValue(f.paths, f.t, q.K),
                         ContinuationValue(f.paths, f.payoff, f.discount, f.t, itm))

\* One iteration of the backward loop, lines 27-42, at t = f.t.
LsmBackwardStep(f, q) ==
    IF q.option_type = "call"
    THEN LsmStepResult(f, "call", f.payoff, {}, 1..q.simulations, 0)
    ELSE LsmPutStep(f, q, InTheMoney(f.paths, f.t, q.K))

RECURSIVE SumTo(_, _)
SumTo(v, n) == IF n = 0 THEN FpZero ELSE FpAdd(SumTo(v, n - 1), v[n])

\* np.mean(v): nan (with a RuntimeWarning, no exception) for an empty v.
Mean(v) ==
    IF Len(v) = 0 THEN ReturnNan ELSE Return(FpDiv(SumTo(v, Len(v)), FpInt(Len(v))))

\* return np.mean(payoff) * math.exp(-r * dt), line 44.
LsmReturnValue(f, q) ==
    IF Mean(f.payoff).tag = "nan" THEN ReturnNan
    ELSE Return(FpMul(Mean(f.payoff).v, MathExp(FpMul(FpNeg(q.r), f.dt))))

----------------------------------------------------------------------------
(* pages/3_Binomial Tree Pricer.py: binomial_tree                          *)
(* option[i + 1][j + 1] is option[i, j] of the code.                        *)

\* writes is the log of the nodes <<i, j>> the backward induction has
\* assigned, in the order of the assignments.
BtIdle ==
    [dt |-> FpZero, u |-> FpZero, d |-> FpZero, p |-> FpZero,
     option |-> <<>>, i |-> 0, j |-> 0, writes |-> <<>>]

\* math.exp(sigma * math.sqrt(dt)), line 10.
BtUp(q, dt) == MathExp(FpMul(q.sigma, MathSqrt(dt)))

\* Line 12, given u: zero division when u - 1 / u is zero.
BtDenominator(u) ==
    IF FpSub(u, FpDiv(FpOne, u)).m = 0
    THEN Raise("ZeroDivisionError", "float division by zero")
    ELSE Pending

\* Lines 10-12, given dt: math.sqrt fails for dt < 0.
BtFactorsOutcome(q, dt) ==
    IF dt.m < 0 THEN Raise("ValueError", "math domain error")
    ELSE BtDenominator(BtUp(q, dt))

\* Lines 9-14: the exception raised before the terminal loop, if any.
\* T / N fails for N = 0, math.sqrt(dt) for dt < 0, and u - d is zero when
\* sigma * sqrt(dt) rounds to nothing.
BtEnterOutcome(q) ==
    IF q.n = 0 THEN Raise("ZeroDivisionError", "float division by zero")
    ELSE BtFactorsOutcome(q, FpDiv(q.T, FpInt(q.n)))

\* Lines 12-14, given dt, u and d: p and option = zeros((N + 1, N + 1)).
BtFrame(q, dt, u, d) ==
    [dt |-> dt, u |-> u, d |-> d,
     p |-> FpDiv(FpSub(MathExp(FpMul(q.r, dt)), d), FpSub(u, d)),
     option |-> [i \in 1..(q.n + 1) |-> [j \in 1..(q.n + 1) |-> FpZero]],
     i |-> q.n, j |-> 0, writes |-> <<>>]

\* Line 11, given dt and u: d = 1 / u.
BtDown(q, dt, u) == BtFrame(q, dt, u, FpDiv(FpOne, u))

\* Lines 9-14: dt, u, d, p and option.
BtEnterFrame(q) == BtDown(q, FpDiv(q.T, FpInt(q.n)), BtUp(q, FpDiv(q.T, FpInt(q.n))))

\* ST = S * (u ** (N - j)) * (d ** j), line 16.
BtST(f, q, j) == FpMul(FpMul(q.S, FpPow(f.u, q.n - j)), FpPow(f.d, j))

\* Lines 15-20: the terminal row option[N, 0..N].
BtTerminalRow(f, q) ==
    [f EXCEPT !.option[q.n + 1] =
                  [j \in 1..(q.n + 1) |->
                      IF q.option_type = "call"
                      THEN FpMax(FpSub(BtST(f, q, j - 1), q.K), FpZero)
                      ELSE FpMax(FpSub(q.K, BtST(f, q, j - 1)), FpZero)],
              !.i = q.n - 1, !.j = 0]

\* The immediate exercise payoff at node (i, j), where the price is
\* S * u ** (i - j) * d ** j.
BtExercisePayoff(f, q, i, j) ==
    IF q.option_type = "call"
    THEN FpMax(FpSub(FpMul(FpMul(q.S, FpPow(f.u, i - j)), FpPow(f.d, j)), q.K),
               FpZero)
    ELSE FpMax(FpSub(q.K, FpMul(FpMul(q.S, FpPow(f.u, i - j)), FpPow(f.d, j))),
               FpZero)

\* The value of node (i, j) under American exercise: the larger of the
\* discounted expectation and the immediate exercise payoff.
BtNodeValueOrExercise(f, q, i, j) ==
    FpMax(FpMul(MathExp(FpMul(FpNeg(q.r), f.dt)),
                FpAdd(FpMul(f.p, f.option[i + 2][j + 1]),
                      FpMul(FpSub(FpOne, f.p), f.option[i + 2][j + 2]))),
          BtExercisePayoff(f, q, i, j))

\* The right-hand side of line 24 for node (i, j).
BtNodeValue(f, q, i, j) ==
    FpMul(MathExp(FpMul(FpNeg(q.r), f.dt)),
          FpAdd(FpMul(f.p, f.option[i + 2][j + 1]),
                FpMul(FpSub(FpOne, f.p), f.option[i + 2][j + 2])))

\* Line 24 for node (f.i, f.j), and the loops' advance to the next node.
BtBackwardStep(f, q) ==
    [f EXCEPT !.option[f.i + 1][f.j + 1] = BtNodeValue(f, q, f.i, f.j),
              !.i = IF f.j = f.i THEN f.i - 1 ELSE f.i,
              !.j = IF f.j = f.i THEN 0 ELSE f.j + 1,
              !.writes = Append(f.writes, <<f.i, f.j>>)]

\* return option[0, 0], line 26.
BtReturnValue(f) == Return(f.option[1][1])

\* Whether a probability lies in [0, 1].
IsProbability(p) == FpLe(FpZero, p) /\ FpLe(p, FpOne)

----------------------------------------------------------------------------
(* The pages that call the analytic formula.  A number_input never gives a *)
(* value below its min_value; the option type comes from a selectbox of    *)
(* call and put.                                                           *)

\* st.error(msg): the page shows msg instead of a result.
StError(msg) == [tag |-> "st.error", v |-> FpZero, exc |-> "", msg |-> msg]

\* Black-Scholes page, lines 64-65: r = r_percent / 100 and
\* sigma = sigma_percent / 100, c holding the percentages.
BsPageConvert(c) ==
    [c EXCEPT !.r = FpDiv(c.r, FpInt(100)), !.sigma = FpDiv(c.sigma, FpInt(100))]

\* The check of line 122 without its test of sigma.
BsPageIncompleteButSigma(c) == c.K.m = 0 \/ c.T.m = 0 \/ c.r.m = 0

\* Line 122: strike == 0 or T == 0 or r == 0 or sigma == 0.
BsPageIncomplete(c) == c.K.m = 0 \/ c.T.m = 0 \/ c.r.m = 0 \/ c.sigma.m = 0

\* Lines 125-143: the price is shown, or the except clause's message.
BsPageShows(x) ==
    IF x.tag = "raise"
    THEN StError("Error: Stock not found or price could not be retrieved. Please check the ticker symbol and try again.")
    ELSE x

\* Implied-volatility page, lines 69-70: T = T_days / 365 and
\* r = r_percent / 100, c holding T_days in n and the percentage in r.
IvPageConvert(c) ==
    [c EXCEPT !.T = FpDiv(FpInt(c.n), FpInt(365)), !.r = FpDiv(c.r, FpInt(100))]

\* Line 121: strike == 0 or T == 0 or r == 0 or market_price == 0.
IvPageIncomplete(c) ==
    c.K.m = 0 \/ c.T.m = 0 \/ c.r.m = 0 \/ c.market_price.m = 0

\* Lines 124-145: the volatility is shown, or the message for None, or the
\* except clause's message.
IvPageShows(x) ==
    IF x.tag = "raise"
    THEN StError("Error: Estimation failed. Please check inputs and try again.")
    ELSE IF x.tag = "none"
    THEN StError("Could not estimate implied volatility. Try adjusting inputs.")
    ELSE x

\* The search of brentq one evaluation of the objective at a time: the
\* bracket [a, b], f(a), f(b), and sigmas, the arguments at which the
\* objective has called black_scholes_price.
IvIdle == [a |-> FpZero, b |-> FpZero, fa |-> FpZero, fb |-> FpZero, sigmas |-> {}]

\* brentq's evaluations at the ends of the bracket; f(b) is not evaluated
\* when f(a) raises.
BrentqStartFrame(a, b, fa, fb) ==
    [a |-> a, b |-> b, fa |-> fa.v, fb |-> fb.v,
     sigmas |-> IF fa.tag = "raise" THEN {a} ELSE {a, b}]

\* What brentq does with f(a) and f(b) before any search: Pending when it
\* goes on to search.
BrentqEndsOutcome(a, b, fa, fb) ==
    IF fa.tag = "raise" THEN fa
    ELSE IF fb.tag = "raise" THEN fb
    ELSE IF fa.v.m = 0 THEN Return(a)
    ELSE IF fb.v.m = 0 THEN Return(b)
    ELSE IF Sgn(fa.v.m) = Sgn(fb.v.m)
         THEN Raise("ValueError", "f(a) and f(b) must have different signs")
    ELSE Pending

\* The middle of the bracket.
BrentqMid(f) == FpDiv(FpAdd(f.a, f.b), [m |-> 2000, e |-> -3])

\* The end of the bracket at which the objective is nearer to zero.
BrentqNearerEnd(f) ==
    IF FpLe([m |-> Abs(f.fa.m), e |-> f.fa.e], [m |-> Abs(f.fb.m), e |-> f.fb.e])
    THEN f.a ELSE f.b

\* The bracket after the objective gave fmid at mid.
BrentqNarrow(f, mid, fmid) ==
    IF fmid.m = 0 THEN [f EXCEPT !.sigmas = @ \cup {mid}]
    ELSE IF Sgn(fmid.m) = Sgn(f.fa.m)
    THEN [f EXCEPT !.a = mid, !.fa = fmid, !.sigmas = @ \cup {mid}]
    ELSE [f EXCEPT !.b = mid, !.fb = fmid, !.sigmas = @ \cup {mid}]

----------------------------------------------------------------------------
(* The process: every Streamlit session runs its page's handler on a       *)
(* thread of its own, and all of them share np.random.                     *)

VARIABLES
    np_random,      \* the state of numpy's global generator
    req,            \* per thread: the call it makes and its arguments
    pc,             \* per thread: where the call stands
    lsm,            \* per thread: the locals of lsm_american_option_price
    bt,             \* per thread: the locals of binomial_tree
    iv,             \* per thread: the search of brentq under the
                    \* implied-volatility page
    ret,            \* per thread: what the call returned or raised
    alone,          \* per thread: the locals the same call has when the
                    \* generator is its own, advanced in step with lsm
    alone_random,   \* per thread: that generator's state
    alone_ret       \* per thread: what the call returns on its own

vars == <<np_random, req, pc, lsm, bt, iv, ret, alone, alone_random, alone_ret>>

Threads == {1, 2}

MaxSims == 3
MaxSteps == 3
MaxN == 3

OptionTypes == {"call", "put", "straddle"}

Request(fn, K, T, r, sigma, option_type, simulations, n, market_price) ==
    [fn |-> fn, S |-> FpInt(100), K |-> K, T |-> T, r |-> r, sigma |-> sigma,
     option_type |-> option_type, simulations |-> simulations, n |-> n,
     market_price |-> market_price]

NoRequest == Request("none", FpZero, FpZero, FpZero, FpZero, "call", 0, 0, FpZero)

BsRequests ==
    {Request("black_scholes", K, T, Fp(5, -2), sigma, o, 0, 0, FpZero) :
        K \in {FpZero, FpInt(100), FpInt(120)}, T \in {FpZero, FpOne},
        sigma \in {FpZero, Fp(2, -1)}, o \in OptionTypes}

IvRequests ==
    {Request("implied_volatility", K, T, Fp(5, -2), FpZero, o, 0, 0, mp) :
        K \in {FpZero, FpInt(100), FpInt(200)},
        T \in {FpZero, Fp(1, -1), FpOne},
        mp \in {FpZero, Fp(557, -2), Fp(1045, -2), Fp(9878, -2), FpInt(150)},
        o \in OptionTypes}

BtRequests ==
    {Request("binomial_tree", FpInt(100), FpOne, r, sigma, o, 0, n, FpZero) :
        r \in {Fp(5, -2), Fp(5, -1)}, sigma \in {FpZero, Fp(1, -1), Fp(2, -1)},
        o \in OptionTypes, n \in -1..MaxN}

LsmRequests ==
    {Request("lsm_american_option_price", FpInt(100), FpOne, Fp(5, -2),
             Fp(2, -1), o, simulations, n, FpZero) :
        o \in OptionTypes, simulations \in -1..MaxSims, n \in -2..MaxSteps}

\* A price computed by black_scholes_price at the volatility sigma, handed to
\* implied_volatility with the other arguments unchanged: at the money for
\* both maturities, and the put deep in the money at the short maturity,
\* where N(-d1) and N(-d2) are 1 in double precision as they are here.
RoundTripRequests ==
    {Request("round_trip", FpInt(100), T, r, sigma, o, 0, 0, FpZero) :
        T \in {Fp(1, -1), FpOne}, r \in {FpZero, Fp(5, -2)},
        sigma \in {SigmaLo, Fp(2, -1), Fp(5, -1), FpOne, SigmaHi},
        o \in {"call", "put"}}
    \cup
    {Request("round_trip", FpInt(200), Fp(1, -1), r, sigma, "put", 0, 0, FpZero) :
        r \in {FpZero, Fp(5, -2)}, sigma \in {SigmaLo, Fp(2, -1), SigmaHi}}

\* What the sidebar of the Black-Scholes page can hold when the button is
\* pressed (lines 47-55): strike, T and the two percentages, none below its
\* min_value of 0.0; r and sigma hold the percentages.
BsPageRequests ==
    {Request("bs_page", strike, T, r_percent, sigma_percent, o, 0, 0, FpZero) :
        strike \in {FpZero, FpInt(100)}, T \in {FpZero, Fp(1, -2), FpOne},
        r_percent \in {FpZero, FpInt(5)},
        sigma_percent \in {FpZero, Fp(1, -2), FpInt(20)}, o \in {"call", "put"}}

\* What the sidebar of the implied-volatility page can hold (lines 53-60):
\* market_price >= 0.01, strike >= 0.0, T_days >= 1 (in n), r_percent >= 0.0.
IvPageRequests ==
    {Request("iv_page", strike, FpZero, r_percent, FpZero, o, 0, T_days,
             market_price) :
        strike \in {FpZero, FpInt(100)}, T_days \in {1, 365},
        r_percent \in {FpZero, FpInt(5)},
        market_price \in {Fp(1, -2), Fp(1045, -2)}, o \in {"call", "put"}}

Requests ==
    BsRequests \cup IvRequests \cup BtRequests \cup LsmRequests
    \cup RoundTripRequests \cup BsPageRequests \cup IvPageRequests

Start(seed, r1, r2) ==
    /\ np_random = seed
    /\ req = <<r1, r2>>
    /\ pc = [th \in Threads |-> IF <<r1, r2>>[th].fn = "none" THEN "off" ELSE "idle"]
    /\ lsm = [th \in Threads |-> LsmIdle]
    /\ bt = [th \in Threads |-> BtIdle]
    /\ iv = [th \in Threads |-> IvIdle]
    /\ ret = [th \in Threads |-> Pending]
    /\ alone = [th \in Threads |-> LsmIdle]
    /\ alone_random = [th \in Threads |-> seed]
    /\ alone_ret = [th \in Threads |-> Pending]

\* One session: one call with any of the arguments, the generator in any
\* state when the call draws from it.
Init ==
    \E seed \in Seeds, r1 \in Requests :
        /\ r1.fn # "lsm_american_option_price" => seed = 0
        /\ Start(seed, r1, NoRequest)

\* black_scholes(S, K, T, r, sigma, option_type), called and returned.
BlackScholes(th) ==
    /\ pc[th] = "idle"
    /\ req[th].fn = "black_scholes"
    /\ ret' = [ret EXCEPT ![th] = black_scholes(req[th].S, req[th].K, req[th].T,
                                     req[th].r, req[th].sigma, req[th].option_type)]
    /\ alone_ret' = [alone_ret EXCEPT ![th] = ret'[th]]
    /\ pc' = [pc EXCEPT ![th] = "done"]
    /\ UNCHANGED <<iv, np_random, req, lsm, bt, alone, alone_random>>

\* implied_volatility(S, K, T, r, market_price, option_type), called and
\* returned.
ImpliedVolatility(th) ==
    /\ pc[th] = "idle"
    /\ req[th].fn = "implied_volatility"
    /\ ret' = [ret EXCEPT ![th] = implied_volatility(req[th])]
    /\ alone_ret' = [alone_ret EXCEPT ![th] = ret'[th]]
    /\ pc' = [pc EXCEPT ![th] = "done"]
    /\ UNCHANGED <<iv, np_random, req, lsm, bt, alone, alone_random>>

\* The call's arguments once p is its market price.
WithMarketPrice(c, p) == [c EXCEPT !.market_price = p]

\* p = black_scholes_price(S, K, T, r, sigma, option_type), kept as the
\* market price of the call of implied_volatility that follows.
RoundTripPrice(th) ==
    /\ pc[th] = "idle"
    /\ req[th].fn = "round_trip"
    /\ black_scholes_price(req[th].S, req[th].K, req[th].T, req[th].r,
                           req[th].sigma, req[th].option_type).tag = "value"
    /\ req' = [req EXCEPT ![th] = WithMarketPrice(req[th],
                    black_scholes_price(req[th].S, req[th].K, req[th].T,
                        req[th].r, req[th].sigma, req[th].option_type).v)]
    /\ pc' = [pc EXCEPT ![th] = "priced"]
    /\ UNCHANGED <<iv, np_random, lsm, bt, ret, alone, alone_random, alone_ret>>

\* implied_volatility(S, K, T, r, p, option_type), called and returned.
RoundTripSolve(th) ==
    /\ pc[th] = "priced"
    /\ req[th].fn = "round_trip"
    /\ ret' = [ret EXCEPT ![th] = implied_volatility(req[th])]
    /\ alone_ret' = [alone_ret EXCEPT ![th] = ret'[th]]
    /\ pc' = [pc EXCEPT ![th] = "done"]
    /\ UNCHANGED <<iv, np_random, req, lsm, bt, alone, alone_random>>

\* The handler of "Calculate Option Price" up to its check, lines 64-65 and
\* 122-123, c the converted inputs.
BsPageChecked(th, c) ==
    /\ req' = [req EXCEPT ![th] = c]
    /\ IF BsPageIncomplete(c)
       THEN /\ ret' = [ret EXCEPT ![th] = StError("Please fill in all inputs before calculating the option price.")]
            /\ alone_ret' = [alone_ret EXCEPT ![th] = ret'[th]]
            /\ pc' = [pc EXCEPT ![th] = "done"]
       ELSE /\ pc' = [pc EXCEPT ![th] = "bs_validated"]
            /\ UNCHANGED <<ret, alone_ret>>

BsPageClick(th) ==
    /\ pc[th] = "idle"
    /\ req[th].fn = "bs_page"
    /\ BsPageChecked(th, BsPageConvert(req[th]))
    /\ UNCHANGED <<iv, np_random, lsm, bt, alone, alone_random>>

\* Line 125 and what the page shows, lines 126-143.
BsPageCall(th) ==
    /\ pc[th] = "bs_validated"
    /\ ret' = [ret EXCEPT ![th] =
                  BsPageShows(black_scholes(req[th].S, req[th].K, req[th].T,
                      req[th].r, req[th].sigma, req[th].option_type))]
    /\ alone_ret' = [alone_ret EXCEPT ![th] = ret'[th]]
    /\ pc' = [pc EXCEPT ![th] = "done"]
    /\ UNCHANGED <<iv, np_random, req, lsm, bt, alone, alone_random>>

\* The handler of "Estimate Implied Volatility" up to its check, lines 69-70
\* and 121-122, c the converted inputs.
IvPageChecked(th, c) ==
    /\ req' = [req EXCEPT ![th] = c]
    /\ IF IvPageIncomplete(c)
       THEN /\ ret' = [ret EXCEPT ![th] = StError("Please fill in all inputs before estimating implied volatility.")]
            /\ alone_ret' = [alone_ret EXCEPT ![th] = ret'[th]]
            /\ pc' = [pc EXCEPT ![th] = "done"]
       ELSE /\ pc' = [pc EXCEPT ![th] = "iv_validated"]
            /\ UNCHANGED <<ret, alone_ret>>

IvPageClick(th) ==
    /\ pc[th] = "idle"
    /\ req[th].fn = "iv_page"
    /\ IvPageChecked(th, IvPageConvert(req[th]))
    /\ UNCHANGED <<iv, np_random, lsm, bt, alone, alone_random>>

\* brentq has f(a) and f(b): it returns or raises at once (x), or goes on
\* to search (x is Pending).
IvPageEnded(th, x) ==
    IF x.tag = "pending"
    THEN /\ pc' = [pc EXCEPT ![th] = "iv_search"]
         /\ UNCHANGED <<ret, alone_ret>>
    ELSE /\ ret' = [ret EXCEPT ![th] = IvPageShows(ExceptValueError(x))]
         /\ alone_ret' = [alone_ret EXCEPT ![th] = ret'[th]]
         /\ pc' = [pc EXCEPT ![th] = "done"]

IvPageEndsWith(th, fa, fb) ==
    /\ iv' = [iv EXCEPT ![th] = BrentqStartFrame(SigmaLo, SigmaHi, fa, fb)]
    /\ IvPageEnded(th, BrentqEndsOutcome(SigmaLo, SigmaHi, fa, fb))

\* Line 124 into implied_volatility, lines 19-23: the call of brentq and its
\* evaluations of the objective at 1e-6 and 5.0.
IvPageEnds(th) ==
    /\ pc[th] = "iv_validated"
    /\ IvPageEndsWith(th, objective(req[th], SigmaLo), objective(req[th], SigmaHi))
    /\ UNCHANGED <<np_random, req, lsm, bt, alone, alone_random>>

\* The search returns x to implied_volatility, which returns it to the
\* page.
IvPageReturn(th, x) ==
    /\ ret' = [ret EXCEPT ![th] = IvPageShows(Return(x))]
    /\ alone_ret' = [alone_ret EXCEPT ![th] = ret'[th]]
    /\ pc' = [pc EXCEPT ![th] = "done"]

\* The objective gave fmid at mid.
IvPageSearchWith(th, mid, fmid) ==
    /\ iv' = [iv EXCEPT ![th] = BrentqNarrow(iv[th], mid, fmid)]
    /\ IF fmid.m = 0
       THEN IvPageReturn(th, mid)
       ELSE UNCHANGED <<pc, ret, alone_ret>>

IvPageSearchAt(th, mid) ==
    IF mid = iv[th].a \/ mid = iv[th].b
    THEN /\ IvPageReturn(th, BrentqNearerEnd(iv[th]))
         /\ UNCHANGED iv
    ELSE IvPageSearchWith(th, mid, objective(req[th], mid).v)

\* One iteration of the search inside brentq, line 23.
IvPageSearch(th) ==
    /\ pc[th] = "iv_search"
    /\ IvPageSearchAt(th, BrentqMid(iv[th]))
    /\ UNCHANGED <<np_random, req, lsm, bt, alone, alone_random>>

\* lsm_american_option_price, lines 11-15.
LsmEnter(th) ==
    /\ pc[th] = "idle"
    /\ req[th].fn = "lsm_american_option_price"
    /\ IF LsmEnterOutcome(req[th]).tag = "raise"
       THEN /\ ret' = [ret EXCEPT ![th] = LsmEnterOutcome(req[th])]
            /\ alone_ret' = [alone_ret EXCEPT ![th] = LsmEnterOutcome(req[th])]
            /\ pc' = [pc EXCEPT ![th] = "done"]
            /\ UNCHANGED <<lsm, alone>>
       ELSE /\ lsm' = [lsm EXCEPT ![th] = LsmEnterFrame(req[th])]
            /\ alone' = [alone EXCEPT ![th] = LsmEnterFrame(req[th])]
            /\ pc' = [pc EXCEPT ![th] = "lsm_simulate"]
            /\ UNCHANGED <<ret, alone_ret>>
    /\ UNCHANGED <<iv, np_random, req, bt, alone_random>>

\* One iteration of the forward loop, lines 17-19.
LsmSimulate(th) ==
    /\ pc[th] = "lsm_simulate"
    /\ lsm[th].t <= req[th].n
    /\ lsm' = [lsm EXCEPT ![th] =
                 LsmSimulateStep(lsm[th], req[th],
                                 standard_normal(np_random, req[th].simulations))]
    /\ np_random' = RngAdvance(np_random, req[th].simulations)
    /\ alone' = [alone EXCEPT ![th] =
                   LsmSimulateStep(alone[th], req[th],
                                   standard_normal(alone_random[th],
                                                   req[th].simulations))]
    /\ alone_random' = [alone_random EXCEPT ![th] =
                           RngAdvance(alone_random[th], req[th].simulations)]
    /\ UNCHANGED <<iv, req, pc, bt, ret, alone_ret>>

\* The end of the forward loop and the terminal payoff, lines 21-24.
LsmPayoff(th) ==
    /\ pc[th] = "lsm_simulate"
    /\ lsm[th].t > req[th].n
    /\ lsm' = [lsm EXCEPT ![th] = LsmTerminal(lsm[th], req[th])]
    /\ alone' = [alone EXCEPT ![th] = LsmTerminal(alone[th], req[th])]
    /\ pc' = [pc EXCEPT ![th] = "lsm_backward"]
    /\ UNCHANGED <<iv, np_random, req, bt, ret, alone_random, alone_ret>>

\* One iteration of the backward loop, lines 26-42.
LsmBackward(th) ==
    /\ pc[th] = "lsm_backward"
    /\ lsm[th].t >= 1
    /\ lsm' = [lsm EXCEPT ![th] = LsmBackwardStep(lsm[th], req[th])]
    /\ alone' = [alone EXCEPT ![th] = LsmBackwardStep(alone[th], req[th])]
    /\ UNCHANGED <<iv, np_random, req, pc, bt, ret, alone_random, alone_ret>>

\* The end of the backward loop and the return, line 44.
LsmReturn(th) ==
    /\ pc[th] = "lsm_backward"
    /\ lsm[th].t < 1
    /\ ret' = [ret EXCEPT ![th] = LsmReturnValue(lsm[th], req[th])]
    /\ alone_ret' = [alone_ret EXCEPT ![th] = LsmReturnValue(alone[th], req[th])]
    /\ pc' = [pc EXCEPT ![th] = "done"]
    /\ UNCHANGED <<iv, np_random, req, lsm, bt, alone, alone_random>>

\* binomial_tree, lines 9-14.
BtEnter(th) ==
    /\ pc[th] = "idle"
    /\ req[th].fn = "binomial_tree"
    /\ IF BtEnterOutcome(req[th]).tag = "raise"
       THEN /\ ret' = [ret EXCEPT ![th] = BtEnterOutcome(req[th])]
            /\ alone_ret' = [alone_ret EXCEPT ![th] = BtEnterOutcome(req[th])]
            /\ pc' = [pc EXCEPT ![th] = "done"]
            /\ UNCHANGED bt
       ELSE /\ bt' = [bt EXCEPT ![th] = BtEnterFrame(req[th])]
            /\ pc' = [pc EXCEPT ![th] = "bt_terminal"]
            /\ UNCHANGED <<ret, alone_ret>>
    /\ UNCHANGED <<iv, np_random, req, lsm, alone, alone_random>>

\* The terminal loop, lines 15-20.
BtTerminal(th) ==
    /\ pc[th] = "bt_terminal"
    /\ bt' = [bt EXCEPT ![th] = BtTerminalRow(bt[th], req[th])]
    /\ pc' = [pc EXCEPT ![th] = "bt_backward"]
    /\ UNCHANGED <<iv, np_random, req, lsm, ret, alone, alone_random, alone_ret>>

\* One node of the backward induction, lines 22-24.
BtBackward(th) ==
    /\ pc[th] = "bt_backward"
    /\ bt[th].i >= 0
    /\ bt' = [bt EXCEPT ![th] = BtBackwardStep(bt[th], req[th])]
    /\ UNCHANGED <<iv, np_random, req, pc, lsm, ret, alone, alone_random, alone_ret>>

\* The end of the backward induction and the return, line 26.
BtReturn(th) ==
    /\ pc[th] = "bt_backward"
    /\ bt[th].i < 0
    /\ ret' = [ret EXCEPT ![th] = BtReturnValue(bt[th])]
    /\ alone_ret' = [alone_ret EXCEPT ![th] = ret'[th]]
    /\ pc' = [pc EXCEPT ![th] = "done"]
    /\ UNCHANGED <<iv, np_random, req, lsm, bt, alone, alone_random>>

Next ==
    \E th \in Threads :
        \/ BlackScholes(th)
        \/ ImpliedVolatility(th)
        \/ RoundTripPrice(th)
        \/ RoundTripSolve(th)
        \/ BsPageClick(th)
        \/ BsPageCall(th)
        \/ IvPageClick(th)
        \/ IvPageEnds(th)
        \/ IvPageSearch(th)
        \/ LsmEnter(th)
        \/ LsmSimulate(th)
        \/ LsmPayoff(th)
        \/ LsmBackward(th)
        \/ LsmReturn(th)
        \/ BtEnter(th)
        \/ BtTerminal(th)
        \/ BtBackward(th)
        \/ BtReturn(th)

Spec == Init /\ [][Next]_vars

----------------------------------------------------------------------------
(* Properties.                                                             *)

IsLsm(th) == req[th].fn = "lsm_american_option_price"

\* The backward iteration thread th ran last took the given branch.
LastStep(th, kind) == IsLsm(th) /\ lsm[th].last.kind = kind

\* The cashflow of trajectory i after that iteration is its cashflow before
\* it times the one-step discount.
DiscountedOnce(th, i) ==
    lsm[th].payoff[i] = FpMul(lsm[th].last.before[i], lsm[th].discount)

\* C1: for a put, a backward iteration at which no trajectory is in the
\* money multiplies every entry of the cashflow vector by the one-step
\* discount once.
C1_NoItmStepDiscounts ==
    \A th \in Threads :
        (LastStep(th, "noitm") /\ req[th].option_type = "put") =>
            \A i \in 1..req[th].simulations : DiscountedOnce(th, i)

\* The trajectories in the money at the iteration thread th ran last.
LastItm(th) == InTheMoney(lsm[th].paths, lsm[th].last.t, req[th].K)

\* The fitted continuation values of that iteration.
LastContinuation(th) ==
    ContinuationValue(lsm[th].paths, lsm[th].last.before, lsm[th].discount,
                      lsm[th].last.t, LastItm(th))

\* Trajectory i is in the money at that iteration and its exercise value
\* is strictly greater than its fitted continuation value.
ShouldExercise(th, i) ==
    /\ i \in LastItm(th)
    /\ FpLt(LastContinuation(th)[i],
            FpSub(req[th].K, lsm[th].paths[i][lsm[th].last.t + 1]))

\* C2: for a put, a backward iteration with a trajectory in the money gives
\* each trajectory exactly one of two updates: the cashflow becomes the
\* undiscounted exercise value K - S_t if the trajectory is in the money and
\* that value exceeds the fitted continuation value, and otherwise the
\* cashflow is multiplied by the one-step discount once; trajectories out of
\* the money are in the discounted group.
C2_ExerciseOrDiscount ==
    \A th \in Threads :
        (LastStep(th, "regress") /\ req[th].option_type = "put") =>
            /\ lsm[th].last.exercised \cap lsm[th].last.discounted = {}
            /\ lsm[th].last.exercised \cup lsm[th].last.discounted
                   = 1..req[th].simulations
            /\ (1..req[th].simulations) \ LastItm(th) \subseteq lsm[th].last.discounted
            /\ \A i \in 1..req[th].simulations :
                   IF ShouldExercise(th, i)
                   THEN /\ i \in lsm[th].last.exercised
                        /\ lsm[th].payoff[i] =
                               FpSub(req[th].K, lsm[th].paths[i][lsm[th].last.t + 1])
                   ELSE /\ i \in lsm[th].last.discounted
                        /\ DiscountedOnce(th, i)

\* An iteration that exercised one trajectory, discounted another that was in
\* the money with a cashflow to discount, and one that was out of the money.
C2_Witness ==
    \E th \in Threads :
        /\ LastStep(th, "regress") /\ req[th].option_type = "put"
        /\ lsm[th].last.exercised # {}
        /\ \E i \in LastItm(th) \ lsm[th].last.exercised :
               lsm[th].last.before[i].m # 0
        /\ (1..req[th].simulations) \ LastItm(th) # {}

RECURSIVE DiscountTimes(_, _, _)
\* v multiplied k times by the discount d, one multiplication after another.
DiscountTimes(v, d, k) == IF k <= 0 THEN v ELSE FpMul(DiscountTimes(v, d, k - 1), d)

\* The terminal call payoff max(S_T - K, 0) of trajectory i.
TerminalCallPayoff(th, i) ==
    FpMax(FpSub(lsm[th].paths[i][req[th].n + 1], req[th].K), FpZero)

\* C3: for a call no regression and no exercise is ever evaluated: the
\* steps - 1 backward iterations only multiply the cashflows by the one-step
\* discount, and the value returned is the mean of the terminal payoffs
\* max(S_T - K, 0), each discounted steps - 1 times, times the one-step
\* discount: steps discounts in all.
C3_CallOnlyDiscounts ==
    \A th \in Threads :
        (IsLsm(th) /\ req[th].option_type = "call") =>
            /\ lsm[th].last.regressions = 0
            /\ lsm[th].last.exercised = {}
            /\ lsm[th].last.kind \in {"none", "call"}
            /\ (pc[th] = "done" /\ ret[th].tag = "value") =>
                   /\ \A i \in 1..req[th].simulations :
                          lsm[th].payoff[i] =
                              DiscountTimes(TerminalCallPayoff(th, i),
                                            lsm[th].discount, req[th].n - 1)
                   /\ ret[th].v =
                          FpMul(Mean(lsm[th].payoff).v,
                                MathExp(FpMul(FpNeg(req[th].r),
                                              FpDiv(req[th].T, FpInt(req[th].n)))))

\* A call priced over three steps returned a positive price.
C3_Witness ==
    \E th \in Threads :
        /\ IsLsm(th) /\ req[th].option_type = "call"
        /\ pc[th] = "done" /\ ret[th].tag = "value"
        /\ req[th].n = 3 /\ req[th].simulations >= 2
        /\ ret[th].v.m > 0
        /\ lsm[th].last.kind = "call"

IsIv(th) == req[th].fn = "implied_volatility"

\* f(sigma) = black_scholes_price(S, K, T, r, sigma, kind) - market_price for
\* the call of thread th.
F(th, sigma) == objective(req[th], sigma)

\* implied_volatility has returned to thread th, and f has a value at both
\* ends of the bracket.
IvReturned(th) ==
    /\ IsIv(th) /\ pc[th] = "done"
    /\ F(th, SigmaLo).tag = "value" /\ F(th, SigmaHi).tag = "value"

OppositeSigns(x, y) == Sgn(x.m) * Sgn(y.m) < 0

\* The number k units in the last place of x away from x.
FpStep(x, k) == Norm(x.m + k, x.e)

\* x is a root of f to the tolerance of the search: f vanishes or changes
\* sign within two units in the last place of x.
IsRoot(th, x) ==
    \E j, k \in -2..2 :
        Sgn(F(th, FpStep(x, j)).v.m) * Sgn(F(th, FpStep(x, k)).v.m) <= 0

\* What thread th got is a root of f in [1e-6, 5.0].
RootReturned(th) ==
    /\ ret[th].tag = "value"
    /\ FpLe(SigmaLo, ret[th].v) /\ FpLe(ret[th].v, SigmaHi)
    /\ IsRoot(th, ret[th].v)

\* C4 as stated: implied_volatility returns a root of f in [1e-6, 5.0] when
\* f(1e-6) and f(5.0) have opposite signs and None when they do not, and so
\* None whenever market_price exceeds the price at sigma = 5.0.
C4_RootIffOppositeSigns ==
    \A th \in Threads :
        IvReturned(th) =>
            /\ IF OppositeSigns(F(th, SigmaLo).v, F(th, SigmaHi).v)
               THEN RootReturned(th)
               ELSE ret[th] = ReturnNone
            /\ F(th, SigmaHi).v.m < 0 => ret[th] = ReturnNone

\* C4: implied_volatility returns a root of f in [1e-6, 5.0] when f(1e-6)
\* and f(5.0) have opposite signs, the end of the bracket itself when f
\* vanishes there, and None when f(1e-6) and f(5.0) are both positive or both
\* negative; so None whenever market_price exceeds the price at sigma = 5.0.
C4_RootOrNone ==
    \A th \in Threads :
        IvReturned(th) =>
            LET fa == F(th, SigmaLo).v
                fb == F(th, SigmaHi).v
            IN  /\ fa.m = 0 => ret[th] = Return(SigmaLo)
                /\ (fa.m # 0 /\ fb.m = 0) => ret[th] = Return(SigmaHi)
                /\ OppositeSigns(fa, fb) => RootReturned(th)
                /\ Sgn(fa.m) * Sgn(fb.m) > 0 => ret[th] = ReturnNone
                /\ fb.m < 0 => ret[th] = ReturnNone

\* A root strictly inside the bracket was returned for a market price the
\* model reaches.
C4_Witness ==
    \E th \in Threads :
        /\ IvReturned(th)
        /\ OppositeSigns(F(th, SigmaLo).v, F(th, SigmaHi).v)
        /\ ret[th].tag = "value"
        /\ FpLt(SigmaLo, ret[th].v) /\ FpLt(ret[th].v, SigmaHi)

SigmaGrid == {SigmaLo, Fp(1, -1), Fp(2, -1), Fp(5, -1), FpOne, FpInt(2), SigmaHi}

\* C5: implied_volatility never raises: every failure inside the objective
\* or the search comes back as None, and None means that no volatility of
\* the bracket reproduces the market price.
C5_NeverRaises ==
    \A th \in Threads :
        (IsIv(th) /\ pc[th] = "done") =>
            /\ ret[th].tag # "raise"
            /\ ret[th].tag = "none" =>
                   \A sigma \in SigmaGrid :
                       F(th, sigma).tag = "value" => F(th, sigma).v.m # 0

IsBt(th) == req[th].fn = "binomial_tree"

\* C6: binomial_tree never returns a price computed with a probability p
\* outside [0, 1].
C6_ProbabilityInUnitInterval ==
    \A th \in Threads :
        (IsBt(th) /\ pc[th] = "done" /\ ret[th].tag = "value") =>
            IsProbability(bt[th].p)

IsBs(th) == req[th].fn = "black_scholes"

\* d1 of the call of thread th, or the exception its computation raises.
D1Of(th) == D1(req[th].S, req[th].K, req[th].T, req[th].r, req[th].sigma)

\* C7: black_scholes returns S*Phi(d1) - K*exp(-rT)*Phi(d2) for a call and
\* K*exp(-rT)*Phi(-d2) - S*Phi(-d1) for a put; for every other kind it never
\* returns a price, and it raises the invalid-option-kind ValueError whenever
\* the arguments are ones d1 can be computed for.
C7_FormulaOrInvalidKind ==
    \A th \in Threads :
        (IsBs(th) /\ pc[th] = "done") =>
            /\ req[th].option_type \notin {"call", "put"} => ret[th].tag = "raise"
            /\ D1Of(th).tag = "value" =>
                   ret[th] =
                       IF req[th].option_type = "call"
                       THEN Return(CallFormula(req[th].S, req[th].K, req[th].T,
                                req[th].r, D1Of(th).v,
                                D2(D1Of(th).v, req[th].T, req[th].sigma)))
                       ELSE IF req[th].option_type = "put"
                       THEN Return(PutFormula(req[th].S, req[th].K, req[th].T,
                                req[th].r, D1Of(th).v,
                                D2(D1Of(th).v, req[th].T, req[th].sigma)))
                       ELSE InvalidOptionKind

\* black_scholes was called with valid numbers and a kind that is neither
\* call nor put, and raised the invalid-option-kind error.
C7_Witness ==
    \E th \in Threads :
        /\ IsBs(th) /\ pc[th] = "done"
        /\ req[th].option_type = "straddle"
        /\ D1Of(th).tag = "value"
        /\ ret[th] = InvalidOptionKind

\* C8: binomial_tree, lsm_american_option_price and implied_volatility
\* never return a price or a volatility for a kind that is neither call nor
\* put.
C8_EveryComponentRejectsKind ==
    \A th \in Threads :
        (/\ IsBt(th) \/ IsLsm(th) \/ IsIv(th)
         /\ pc[th] = "done"
         /\ req[th].option_type \notin {"call", "put"}) =>
            ret[th].tag # "value"

\* C9: a call with a non-positive count ends in an error: binomial_tree for
\* N < 1, lsm_american_option_price for simulations < 1 or steps < 1.
C9_NonPositiveCountFails ==
    \A th \in Threads :
        (/\ pc[th] = "done"
         /\ \/ IsBt(th) /\ req[th].n < 1
            \/ IsLsm(th) /\ (req[th].simulations < 1 \/ req[th].n < 1)) =>
            ret[th].tag = "raise"

\* binomial_tree is in its backward induction, or has returned a value.
BtInducting(th) ==
    /\ IsBt(th)
    /\ \/ pc[th] = "bt_backward"
       \/ pc[th] = "done" /\ ret[th].tag = "value"

\* The interior nodes (i, j) of a tree of n steps: 0 <= j <= i < n.
InteriorNodes(n) == {w \in (0..(n - 1)) \X (0..(n - 1)) : w[2] <= w[1]}

\* The nodes written so far.
Written(f) == {f.writes[k] : k \in 1..Len(f.writes)}

\* Only interior nodes are written, none twice, in decreasing order of i.
WrittenOnceDownwards(f, n) ==
    /\ Written(f) \subseteq InteriorNodes(n)
    /\ \A k, l \in 1..Len(f.writes) :
           /\ f.writes[k] = f.writes[l] => k = l
           /\ k < l => f.writes[k][1] >= f.writes[l][1]

\* The children (i + 1, j) and (i + 1, j + 1) of the k-th written node lie
\* in the grid, and each is a terminal node or was written before it.
ChildrenFinal(f, n, k) ==
    LET i == f.writes[k][1]
        j == f.writes[k][2]
    IN  /\ i + 1 <= n /\ j + 1 <= n
        /\ \/ i + 1 = n
           \/ /\ \E l \in 1..(k - 1) : f.writes[l] = <<i + 1, j>>
              /\ \E l \in 1..(k - 1) : f.writes[l] = <<i + 1, j + 1>>

\* Node (i, j) holds e^(-r*dt) * (p*option[i+1, j] + (1-p)*option[i+1, j+1])
\* of the values its children hold now.
HoldsDiscountedExpectation(f, q, i, j) ==
    f.option[i + 1][j + 1] =
        FpMul(MathExp(FpMul(FpNeg(q.r), f.dt)),
              FpAdd(FpMul(f.p, f.option[i + 2][j + 1]),
                    FpMul(FpSub(FpOne, f.p), f.option[i + 2][j + 2])))

\* The terminal row holds the payoffs max(ST - K, 0) or max(K - ST, 0) the
\* terminal loop gave it.
TerminalPayoffsKept(f, q) ==
    \A j \in 0..q.n :
        f.option[q.n + 1][j + 1] =
            (LET ST == FpMul(FpMul(q.S, FpPow(f.u, q.n - j)), FpPow(f.d, j))
             IN  IF q.option_type = "call" THEN FpMax(FpSub(ST, q.K), FpZero)
                 ELSE FpMax(FpSub(q.K, ST), FpZero))

\* C12: for N >= 1 the backward induction of binomial_tree writes each
\* interior node (i, j), 0 <= j <= i < N, exactly once and in decreasing
\* order of i, as e^(-r*dt) * (p*option[i+1,j] + (1-p)*option[i+1,j+1]) of
\* children that lie in the grid and hold their final values; the value is
\* never replaced by the immediate exercise payoff; the N + 1 terminal
\* payoffs are never changed; and option[0, 0] is returned only after every
\* interior node is written.
C12_BackwardInduction ==
    \A th \in Threads :
        BtInducting(th) =>
            /\ req[th].n >= 1
            /\ WrittenOnceDownwards(bt[th], req[th].n)
            /\ \A k \in 1..Len(bt[th].writes) :
                   /\ ChildrenFinal(bt[th], req[th].n, k)
                   /\ HoldsDiscountedExpectation(bt[th], req[th],
                          bt[th].writes[k][1], bt[th].writes[k][2])
            /\ TerminalPayoffsKept(bt[th], req[th])
            /\ pc[th] = "done" =>
                   /\ Written(bt[th]) = InteriorNodes(req[th].n)
                   /\ ret[th] = Return(bt[th].option[1][1])

\* A put priced on a tree of MaxN steps has returned, every interior node
\* written, and at some node the immediate exercise payoff exceeds the value
\* the node holds.
C12_Witness ==
    \E th \in Threads :
        /\ IsBt(th) /\ pc[th] = "done" /\ ret[th].tag = "value"
        /\ req[th].n = MaxN /\ req[th].option_type = "put"
        /\ Len(bt[th].writes) = Cardinality(InteriorNodes(MaxN))
        /\ \E w \in Written(bt[th]) :
               FpLt(bt[th].option[w[1] + 1][w[2] + 1],
                    BtExercisePayoff(bt[th], req[th], w[1], w[2]))

IsRoundTrip(th) == req[th].fn = "round_trip"

\* x is within one percent of y.
WithinTolerance(x, y) ==
    FpLe([m |-> Abs(FpSub(x, y).m), e |-> FpSub(x, y).e],
         FpMul([m |-> Abs(y.m), e |-> y.e], Fp(1, -2)))

\* C11: for p = black_scholes_price(S, K, T, r, sigma0, kind) with S, K,
\* T > 0, r >= 0, kind call or put and sigma0 in [1e-6, 5.0],
\* implied_volatility(S, K, T, r, p, kind) returns a number, never None,
\* and the number is within a small tolerance of sigma0.
C11_RoundTripRecoversSigma ==
    \A th \in Threads :
        (IsRoundTrip(th) /\ pc[th] = "done") =>
            /\ ret[th].tag = "value"
            /\ WithinTolerance(ret[th].v, req[th].sigma)

IsBsPage(th) == req[th].fn = "bs_page"

IsIvPage(th) == req[th].fn = "iv_page"

\* The page of thread th has passed its check: the call of the formula is
\* about to be made, is under way, or has been made.
PageCalls(th) ==
    \/ pc[th] \in {"bs_validated", "iv_validated", "iv_search"}
    \/ /\ pc[th] = "done"
       /\ ret[th] # StError("Please fill in all inputs before calculating the option price.")
       /\ ret[th] # StError("Please fill in all inputs before estimating implied volatility.")

\* The divisor sigma * math.sqrt(T) of d1 is not zero.
DivisorNonZero(sigma, T) == FpMul(sigma, MathSqrt(T)).m # 0

\* No exception of the formula reached the page's except clause.
NoExceptionShown(th) ==
    /\ ret[th] # StError("Error: Stock not found or price could not be retrieved. Please check the ticker symbol and try again.")
    /\ ret[th] # StError("Error: Estimation failed. Please check inputs and try again.")

----------------------------------------------------------------------------
(* Two sessions at once.                                                   *)

ConcFirst ==
    {Request("black_scholes", FpInt(100), FpOne, Fp(5, -2), Fp(2, -1), "call",
             0, 0, FpZero),
     Request("implied_volatility", FpInt(100), FpOne, Fp(5, -2), FpZero, "call",
             0, 0, Fp(1045, -2)),
     Request("round_trip", FpInt(100), FpOne, Fp(5, -2), Fp(2, -1), "call",
             0, 0, FpZero),
     Request("bs_page", FpInt(100), FpOne, FpInt(5), FpInt(20), "call",
             0, 0, FpZero),
     Request("iv_page", FpInt(100), FpZero, FpInt(5), FpZero, "call",
             0, 365, Fp(1045, -2)),
     Request("binomial_tree", FpInt(100), FpOne, Fp(5, -2), Fp(2, -1), "put",
             0, 2, FpZero)}
    \cup {r \in LsmRequests : r.simulations \in 1..2 /\ r.n = 2
                               /\ r.option_type \in {"call", "put"}}

ConcSecond ==
    {r \in LsmRequests : r.simulations = 2 /\ r.n = 2
                          /\ r.option_type \in {"call", "put"}}

\* Two sessions, each making one call, in any interleaving of their steps.
InitConc ==
    \E seed \in 0..7, r1 \in ConcFirst, r2 \in ConcSecond : Start(seed, r1, r2)

SpecConc == InitConc /\ [][Next]_vars

\* C10: whatever the interleaving, a call returns what the same call returns
\* when it runs alone.
C10_SameAsAlone ==
    \A th \in Threads : pc[th] = "done" => ret[th] = alone_ret[th]

=============================================================================
